---- MODULE Spec2Model ----
(***************************************************************************)
(* Model of dragonsync_meshtastic.py: the CoT listener (cot_receiver), the *)
(* periodic flusher (flush_updates) and the sender (send_packets_async)    *)
(* running as cooperative asyncio tasks of one event loop.                 *)
(*                                                                         *)
(* Strings are sequences of one-character strings so that                  *)
(* shorten_callsign, safe_str and the prefix tests of parse_cot are        *)
(* computed as the code computes them.                                     *)
(*                                                                         *)
(* A task of the event loop runs uninterrupted between two awaits: the     *)
(* flusher's program counter pc names its position, and the other tasks    *)
(* (and the passing of time) act only while the flusher is suspended at    *)
(* one of its awaits (SuspendPoints).                                      *)
(*                                                                         *)
(* The main thread first executes the module-level start-up (radio         *)
(* interface, multicast socket, ZMQ socket, GPS) and then asyncio.run; the *)
(* variable main names its position.                                       *)
(*                                                                         *)
(* clamp_int and the two packet builders are also applied on their own     *)
(* (SpecPure) to arguments the running program does not produce.           *)
(*                                                                         *)
(* The FPV relay (fpv_receiver and process_rx_data, and the main loop of   *)
(* fpv_detector.py, which relays the same serial lines as a program of     *)
(* its own) is followed on its own (SpecFpv).                              *)
(***************************************************************************)
EXTENDS Integers, Sequences, FiniteSets, TLC

VARIABLES
    latest_updates,      \* dict id -> msg, in insertion order: Seq of [id, msg]
    last_geo_chat_sent,  \* dict id -> time of the last granted GeoChat check
    tx_lock,             \* asyncio.Lock: TRUE when locked
    clock,               \* time.time(), whole seconds
    pc,                  \* position of the flush_updates task
    keys,                \* rest of `keys` the for loop of flush_updates has to visit
    cur,                 \* msg popped by flush_updates, argument of send_packets_async
    inflight,            \* packets handed to interface.sendData and not yet returned
    sleepLeft,           \* seconds the asyncio.sleep(interval) of flush_updates still lasts
    running,             \* the event loop of asyncio.run(main_async()) is running
    main,                \* position of the main thread: the start-up statement it is about
                         \* to execute, "run" inside asyncio.run, "exited" after the process
    interface,           \* the Meshtastic SerialInterface: "none", "open" or "closed"
    exitCause,           \* history: what ended the process ("none" while it lives)
    arg,                 \* the function applied on its own and its argument (None inside
                         \* the running program)
    ret,                 \* what that function returned (None before the call)
    fpv_prog,            \* the program whose FPV relay runs: "dragonsync_meshtastic",
                         \* "fpv_detector", or "none" when no relay is started
    stationary,          \* args.stationary
    gps_socket,          \* the gpsd connection: TRUE when open, FALSE when None
    static_lat,          \* static_lat (lat_cache in fpv_detector.py)
    static_lon,          \* static_lon (lon_cache in fpv_detector.py)
    fpv_pc,              \* position of the relay: "init_gps", "read" (waiting for a serial
                         \* line), "process" (a line was read), "raised" (an exception
                         \* left the relay loop), "off" when no relay is started
    line,                \* the serial line the relay has read (None before the first)
    zmq_sent,            \* history: the calls of zmq_socket.send_string, in order: the
                         \* dict given to json.dumps and whether the call returned
    fpvSeen,             \* history: the lines read so far, in order: whether json.loads
                         \* decoded the line and the calls of send_string made before it
                         \* was read
    lastUpsert,          \* history: id -> msg last stored by cot_receiver since the last pop
                         \* of id, and ow: 0 when it replaced no other record, 1 when it
                         \* replaced one, 2 when it replaced one during the running pass
    curOw,               \* history: the ow of the record cur when it was popped
    pliAttempts,         \* history: calls of sendData with a PLI packet for cur
    chatAttempts,        \* history: calls of sendData with a GeoChat packet for cur
    builtChat,           \* history: calls of build_atak_geochat_packet for cur
    raised,              \* history: the sendData call that returned in the last step raised
    lastCheck,           \* history: the GeoChat throttle check made for cur
    lastPli,             \* history: identifier, type and time of the last PLI packet sent, and
                         \* the seconds since the PLI packet sent before it when that one
                         \* had the same identifier (-1 otherwise)
    passKeys,            \* history: the list `keys` as taken at the start of the pass
    passStart,           \* history: time.time() when the running pass took its list `keys`
    curSeen,             \* history: time.time() when the record cur was stored
    passSent,            \* history: for each identifier, the pops, the PLI send attempts and
                         \* the GeoChat send attempts made for it in the running pass
    denied,              \* history: the identifiers whose last popped record was denied by
                         \* the GeoChat throttle and that were not stored again since
    track,               \* the histories that are kept: a subset of
                         \* {"ow", "late", "check", "pli", "seen", "denied", "pass"}
    feed,                \* the datagrams the multicast group delivers
    pace                 \* steps: the seconds that can pass while the tasks are suspended;
                         \* horizon: the seconds of wall time followed after start-up

vars == <<latest_updates, last_geo_chat_sent, tx_lock, clock, pc, keys, cur,
          inflight, sleepLeft, running, lastUpsert, curOw, pliAttempts,
          chatAttempts, builtChat, raised, lastCheck, lastPli, passKeys, passStart,
          curSeen, denied, passSent, track, feed, pace, main, interface, exitCause,
          arg, ret, fpv_prog, stationary, gps_socket, static_lat, static_lon,
          fpv_pc, line, zmq_sent, fpvSeen>>

\* the variables of the FPV relay
fpvVars == <<fpv_prog, stationary, gps_socket, static_lat, static_lon, fpv_pc,
             line, zmq_sent, fpvSeen>>

----------------------------------------------------------------------------
(* Bounds *)

\* seconds of wall time the model follows after start-up
MaxElapsed == 10
\* number of distinct identifiers the registry is allowed to hold at once
MaxEntries == 2

----------------------------------------------------------------------------
(* Program constants *)

GEO_CHAT_INTERVAL == 10
FLUSH_INTERVAL == 1
\* time.time() at start-up: any value not smaller than GEO_CHAT_INTERVAL
StartTime == 100
\* the clock is read at a granularity of half a GeoChat interval
TimeSteps == {GEO_CHAT_INTERVAL \div 2}

None == [none |-> TRUE]

----------------------------------------------------------------------------
(* Strings *)

P_WARDRAGON == <<"w","a","r","d","r","a","g","o","n","-">>
P_DRONE == <<"d","r","o","n","e","-">>
P_PILOT == <<"p","i","l","o","t","-">>
P_HOME == <<"h","o","m","e","-">>

startswith(s, p) == Len(s) >= Len(p) /\ SubSeq(s, 1, Len(p)) = p

\* s[-n:]
LastN(s, n) == IF Len(s) <= n THEN s ELSE SubSeq(s, Len(s) - n + 1, Len(s))

\* s[:max_size]
safe_str(val, max_size) ==
    IF Len(val) <= max_size THEN val ELSE SubSeq(val, 1, max_size)

shorten_callsign(callsign) ==
    IF startswith(callsign, P_WARDRAGON) THEN P_WARDRAGON \o LastN(callsign, 4)
    ELSE IF startswith(callsign, P_DRONE) THEN P_DRONE \o LastN(callsign, 4)
    ELSE IF startswith(callsign, P_PILOT) THEN P_PILOT \o LastN(callsign, 4)
    ELSE IF startswith(callsign, P_HOME) THEN P_HOME \o LastN(callsign, 4)
    ELSE IF Len(callsign) >= 4 THEN LastN(callsign, 4) ELSE callsign

----------------------------------------------------------------------------
(* Numbers *)

\* A float that holds degrees is the decimal the datagram spells, with eight
\* places: [neg, whole, frac8] stands for (-1)^neg * (whole + frac8 / 10^8).

Min(a, b) == IF a <= b THEN a ELSE b
Max(a, b) == IF a >= b THEN a ELSE b

\* a clamp without the lower bound
clamp_int_NoFloor(val, bits) == Min(val, 2^bits - 1)

clamp_int(val, bits) ==
    LET max_val == 2^bits - 1
    IN  Max(0, Min(val, max_val))

\* int(deg * 1e7): the product, then int(), which drops the fraction
\* (truncation toward zero)
scaled_int(deg) ==
    LET m == deg.whole * 10000000 + deg.frac8 \div 10
    IN  IF deg.neg THEN -m ELSE m

\* Python's None where a str is expected.  Characters are one-character
\* strings, so this sequence is the text of no string.
PyNone == <<"None">>

\* an exception that leaves the function in place of a return value
Raise(exc) == [raises |-> exc]
IsRaise(v) == "raises" \in DOMAIN v

\* msg.get(key, default)
MsgGet(msg, key, default) == IF key \in DOMAIN msg THEN msg[key] ELSE default

----------------------------------------------------------------------------
(* Regular expressions of build_atak_geochat_packet *)

Digits == {"0","1","2","3","4","5","6","7","8","9"}
Letters ==
    {"a","b","c","d","e","f","g","h","i","j","k","l","m","n","o","p","q","r","s",
     "t","u","v","w","x","y","z","A","B","C","D","E","F","G","H","I","J","K","L",
     "M","N","O","P","Q","R","S","T","U","V","W","X","Y","Z"}
\* \s
Whitespace == {" ", "\t", "\n", "\r", "\f"}
\* [\d\.]
NumClass == Digits \cup {"."}
\* [\w./]
PathClass == Digits \cup Letters \cup {"_", ".", "/"}

\* the characters of lit stand in s from position i on
HasAt(s, i, lit) ==
    /\ i + Len(lit) - 1 <= Len(s)
    /\ \A k \in 1..Len(lit) : s[i + k - 1] = lit[k]

\* the first position from i on whose character is not in cls
RECURSIVE SkipClass(_, _, _)
SkipClass(s, i, cls) ==
    IF i <= Len(s) /\ s[i] \in cls THEN SkipClass(s, i + 1, cls) ELSE i

\* the position reached from i by matching each piece (one of its literals)
\* followed by \s*, or 0 when a piece does not match
RECURSIVE AfterPieces(_, _, _)
AfterPieces(s, i, pieces) ==
    IF pieces = <<>> THEN i
    ELSE LET alts == {l \in Head(pieces) : HasAt(s, i, l)}
         IN  IF alts = {} THEN 0
             ELSE LET l == CHOOSE a \in alts : TRUE
                  IN  AfterPieces(s, SkipClass(s, i + Len(l), Whitespace), Tail(pieces))

\* group 1 of the match that starts at i: pieces, then (cls+) taken greedily,
\* then suffix; <<>> when there is no match at i
CaptureAt(s, i, pieces, cls, suffix) ==
    LET k == AfterPieces(s, i, pieces)
        e == IF k = 0 THEN 0 ELSE SkipClass(s, k, cls)
    IN  IF k # 0 /\ e > k /\ HasAt(s, e, suffix) THEN SubSeq(s, k, e - 1) ELSE <<>>

\* `m = re.search(...); m.group(1) if m else default`: the leftmost match
re_search(s, pieces, cls, suffix, default) ==
    LET hits == {i \in 1..Len(s) : CaptureAt(s, i, pieces, cls, suffix) # <<>>}
    IN  IF hits = {} THEN default
        ELSE CaptureAt(s, CHOOSE i \in hits : \A j \in hits : i <= j,
                       pieces, cls, suffix)

S_CPU_USAGE ==
    <<"C","P","U"," ","U","s","a","g","e",":">>
S_TEMPERATURE ==
    <<"T","e","m","p","e","r","a","t","u","r","e",":">>
S_PLUTO ==
    <<"P","l","u","t","o">>
S_AD936X ==
    <<"A","D","9","3","6","X">>
S_TEMP ==
    <<"T","e","m","p",":">>
S_ZYNQ_TEMP ==
    <<"Z","y","n","q"," ","T","e","m","p",":">>
S_PERCENT ==
    <<"%">>
S_DEGC ==
    <<"°","C">>
S_NA ==
    <<"N","/","A">>
F_CPU ==
    <<" ","|"," ","C","P","U",":"," ">>
F_TEMP ==
    <<"%"," ","|"," ","T","e","m","p",":"," ">>
F_AD936X ==
    <<"°","C"," ","|"," ","A","D","9","3","6","X",":"," ">>
F_ZYNQ ==
    <<" ","|"," ","Z","y","n","q",":"," ">>

\* a message text that takes the temperature from the CPU pattern
detailed_message_CpuAsTemp(msg) ==
    LET remarks == MsgGet(msg, "remarks", <<>>)
        cpu_val == re_search(remarks, << {S_CPU_USAGE} >>, NumClass, S_PERCENT, S_NA)
    IN  shorten_callsign(msg.callsign) \o F_CPU \o cpu_val \o F_TEMP \o cpu_val
            \o F_AD936X \o S_NA \o F_ZYNQ \o S_NA

\* build_atak_geochat_packet: the four searches in remarks and the f-string
detailed_message(msg) ==
    LET remarks == MsgGet(msg, "remarks", <<>>)
        cpu_val == re_search(remarks, << {S_CPU_USAGE} >>, NumClass, S_PERCENT, S_NA)
        temp_val == re_search(remarks, << {S_TEMPERATURE} >>, NumClass, S_DEGC, S_NA)
        ad936x_val == re_search(remarks, << {S_PLUTO, S_AD936X}, {S_TEMP} >>,
                                PathClass, <<>>, S_NA)
        zynq_val == re_search(remarks, << {S_ZYNQ_TEMP} >>, PathClass, <<>>, S_NA)
    IN  shorten_callsign(msg.callsign) \o F_CPU \o cpu_val \o F_TEMP \o temp_val
            \o F_AD936X \o ad936x_val \o F_ZYNQ \o zynq_val

----------------------------------------------------------------------------
(* Inbound datagrams *)

\* the <event> elements the listener is fed: the uid attribute, the callsign
\* attribute of detail/contact as a sequence of zero or one string, and the
\* hae attribute of point.  The drone reports two altitudes (50 then 55);
\* the pilot event carries a callsign that shortens to the identifier of the
\* home event.
Events ==
    { [uid |-> P_DRONE \o <<"A","B","1","2","3","4">>, contact |-> <<>>, alt |-> 50],
      [uid |-> P_DRONE \o <<"A","B","1","2","3","4">>, contact |-> <<>>, alt |-> 55],
      [uid |-> P_WARDRAGON \o <<"0","0","1","8","a","3">>, contact |-> <<>>, alt |-> 50],
      [uid |-> P_HOME \o <<"0","0","0","1">>, contact |-> <<>>, alt |-> 50],
      [uid |-> P_PILOT \o <<"7">>, contact |-> << P_HOME \o <<"A","0","0","0","1">> >>,
       alt |-> 50],
      [uid |-> <<"z","z">>, contact |-> <<>>, alt |-> 50] }

\* the lat and lon attributes of point that every event carries
\* 0.0
Zero == [neg |-> FALSE, whole |-> 0, frac8 |-> 0]

EventLat == [neg |-> FALSE, whole |-> 47, frac8 |-> 12345678]
EventLon == [neg |-> TRUE, whole |-> 8, frac8 |-> 50000000]

\* a datagram is either an event that decodes (ok) or bytes that do not; the
\* events have no remarks element
Datagrams ==
    { [ok |-> TRUE, uid |-> e.uid, contact |-> e.contact, alt |-> e.alt,
       lat |-> EventLat, lon |-> EventLon, remarks |-> <<>>] : e \in Events }
    \cup { [ok |-> FALSE] }

parse_cot(d) ==
    LET uid == d.uid
        callsign == IF d.contact = <<>> THEN uid ELSE d.contact[1]
        type == IF startswith(uid, P_DRONE) THEN "drone"
                ELSE IF startswith(uid, P_WARDRAGON) THEN "system"
                ELSE IF startswith(uid, P_PILOT) THEN "pilot"
                ELSE IF startswith(uid, P_HOME) THEN "home"
                ELSE "unknown"
    IN  << [callsign |-> callsign, lat |-> d.lat, lon |-> d.lon, alt |-> d.alt,
            remarks |-> d.remarks, type |-> type] >>

----------------------------------------------------------------------------
(* The registry latest_updates: a dict in insertion order *)

\* a key list that leaves out the oldest entry of the dict
RegIds_DropFirst(reg) == [i \in 1..(Len(reg) - 1) |-> reg[i + 1].id]

\* a key list that names every key twice
RegIds_Twice(reg) == [i \in 1..(2 * Len(reg)) |-> reg[((i - 1) % Len(reg)) + 1].id]

RegIds(reg) == [i \in 1..Len(reg) |-> reg[i].id]

RegHas(reg, id) == \E i \in 1..Len(reg) : reg[i].id = id

\* a pop that always returns its default
RegGet_None(reg, id) == None

\* reg.get(id)
RegGet(reg, id) ==
    IF RegHas(reg, id)
    THEN reg[CHOOSE i \in 1..Len(reg) : reg[i].id = id].msg
    ELSE None

\* an upsert that keeps the record already stored
RegSet_KeepFirst(reg, id, msg) ==
    IF RegHas(reg, id) THEN reg ELSE Append(reg, [id |-> id, msg |-> msg])

\* an upsert that forgets every other entry
RegSet_Replace(reg, id, msg) == << [id |-> id, msg |-> msg] >>

\* reg[id] = msg
RegSet(reg, id, msg) ==
    IF RegHas(reg, id)
    THEN [i \in 1..Len(reg) |-> IF reg[i].id = id THEN [id |-> id, msg |-> msg] ELSE reg[i]]
    ELSE Append(reg, [id |-> id, msg |-> msg])

\* a pop that empties the dict
RegDel_Clear(reg, id) == <<>>

\* the dict left by reg.pop(id, None)
\* a pop that returns the record and leaves it in the dict
RegDel_Keep(reg, id) == reg

RegDel(reg, id) == SelectSeq(reg, LAMBDA e : e.id # id)

\* last_geo_chat_sent.get(id, 0)
LastGet(m, id) == IF id \in DOMAIN m THEN m[id] ELSE 0

MapSet(m, id, v) == [k \in (DOMAIN m) \cup {id} |-> IF k = id THEN v ELSE m[k]]

MapDel(m, id) == [k \in (DOMAIN m) \ {id} |-> m[k]]

----------------------------------------------------------------------------
(* Packet builders *)

\* the fields of the PLI packet
PliFields(msg) ==
    [kind |-> "pli",
     callsign |-> safe_str(shorten_callsign(msg.callsign), 120),
     latitude_i |-> scaled_int(msg.lat),
     longitude_i |-> scaled_int(msg.lon),
     alt |-> msg.alt,
     speed |-> clamp_int(MsgGet(msg, "speed", 0), 16),
     course |-> clamp_int(MsgGet(msg, "course", 0), 16)]

\* a builder without the test for the unknown type
build_atak_pli_packet_NoFilter(msg) == PliFields(msg)

\* a builder that builds a packet for drones only
build_atak_pli_packet_OnlyDrone(msg) ==
    IF msg.type # "drone" THEN None ELSE PliFields(msg)

build_atak_pli_packet(msg) ==
    IF msg.type = "unknown" THEN None ELSE PliFields(msg)

\* re.search(pattern, None) raises TypeError
build_atak_geochat_packet(msg) ==
    IF MsgGet(msg, "remarks", <<>>) = PyNone THEN Raise("TypeError")
    ELSE [kind |-> "geochat",
          callsign |-> safe_str(shorten_callsign(msg.callsign), 120),
          latitude_i |-> scaled_int(msg.lat),
          longitude_i |-> scaled_int(msg.lon),
          alt |-> msg.alt,
          message |-> safe_str(detailed_message(msg), 256)]

\* a category test that lets drone records through as well
GeoChatEligible_WithDrone(msg) == msg.type \in {"system", "pilot", "home", "drone"}

\* the category test in front of the GeoChat throttle
GeoChatEligible(msg) == msg.type \in {"system", "pilot", "home"}

\* a throttle test with > in place of >=
ThrottleAllows_Strict(now, last_time) == now - last_time > GEO_CHAT_INTERVAL

\* a throttle test with half the interval
ThrottleAllows_Short(now, last_time) == now - last_time >= GEO_CHAT_INTERVAL \div 2

\* the throttle test `now - last_time >= GEO_CHAT_INTERVAL`
ThrottleAllows(now, last_time) == now - last_time >= GEO_CHAT_INTERVAL

\* a throttle that records now in the denied branch too
ThrottleRecord_Always(m, id, now, allowed) == MapSet(m, id, now)

\* a throttle that leaves last_geo_chat_sent alone
ThrottleRecord_Never(m, id, now, allowed) == m

\* a throttle that deletes the entry in the denied branch
ThrottleRecord_Forget(m, id, now, allowed) ==
    IF allowed THEN MapSet(m, id, now) ELSE MapDel(m, id)

\* last_geo_chat_sent after the throttle test: written only in the granted branch
ThrottleRecord(m, id, now, allowed) == IF allowed THEN MapSet(m, id, now) ELSE m

----------------------------------------------------------------------------
(* tx_lock *)

\* a send made without taking the lock
LockEnter_Noop(lock) == lock

\* the lock once `async with tx_lock:` is entered
LockEnter(lock) == TRUE

\* a lock that is released on the success path only
LockExit_LeakOnError(lock, ok) == ~ok

\* the lock once the `async with tx_lock:` block is left, sendData having
\* returned (ok) or raised (~ok, caught inside the block)
LockExit(lock, ok) == FALSE

\* a sender that tries the PLI packet again when sendData raised
AfterPliSend_Retry(ok) == IF ok THEN "geochat_filter" ELSE "build_pli"

\* a sender that gives the record up when the PLI sendData raised
AfterPliSend_Abort(ok) == IF ok THEN "geochat_filter" ELSE "pop"

\* where send_packets_async goes on after the PLI sendData returned or raised
AfterPliSend(ok) == "geochat_filter"

\* where flush_updates goes on after the GeoChat sendData returned or raised
AfterChatSend(ok) == "pop"

----------------------------------------------------------------------------
SuspendPoints == {"sleep", "pli_inflight", "chat_inflight"}

Range(q) == {q[i] : i \in 1..Len(q)}

ProgramInit(t, f, p) ==
    /\ track = t
    /\ feed = f
    /\ pace = p
    /\ latest_updates = <<>>
    /\ last_geo_chat_sent = <<>>
    /\ tx_lock = FALSE
    /\ clock = StartTime
    /\ pc = "sleep"
    /\ keys = <<>>
    /\ cur = None
    /\ inflight = {}
    /\ sleepLeft = 0
    /\ running = FALSE
    /\ main = "create_interface"
    /\ interface = "none"
    /\ exitCause = "none"
    /\ lastUpsert = <<>>
    /\ curOw = 0
    /\ pliAttempts = 0
    /\ chatAttempts = 0
    /\ builtChat = 0
    /\ raised = FALSE
    /\ lastCheck = None
    /\ lastPli = None
    /\ passKeys = <<>>
    /\ passStart = StartTime
    /\ curSeen = StartTime
    /\ denied = {}
    /\ passSent = <<>>

\* no FPV relay: --fpv is not given, fpv_receiver is not started
FpvOff ==
    /\ fpv_prog = "none"
    /\ stationary = FALSE
    /\ gps_socket = FALSE
    /\ static_lat = Zero
    /\ static_lon = Zero
    /\ fpv_pc = "off"
    /\ line = None
    /\ zmq_sent = <<>>
    /\ fpvSeen = <<>>

\* the program as a whole: no function is applied on its own
InitPaced(t, f, p) == ProgramInit(t, f, p) /\ FpvOff /\ arg = None /\ ret = None

\* the clock moves in steps of TimeSteps for MaxElapsed seconds
InitWith(t, f) == InitPaced(t, f, [steps |-> TimeSteps, horizon |-> MaxElapsed])

Init == InitWith({}, Datagrams)

----------------------------------------------------------------------------
(* Process exit: an exception that leaves a task ends asyncio.gather and    *)
(* asyncio.run, which cancels the other tasks (the `async with tx_lock` of  *)
(* a cancelled sender releases the lock) and waits for the executor, so a   *)
(* sendData call that is running returns before the loop is closed.         *)
(* When asyncio.run has returned or raised, the `finally` of __main__ closes  *)
(* the interface and the process ends.                                      *)
Shutdown(cause) ==
    /\ running' = FALSE
    /\ pc' = "cancelled"
    /\ tx_lock' = FALSE
    /\ inflight' = {}
    /\ interface' = "closed"
    /\ main' = "exited"
    /\ exitCause' = cause

\* history: what lastUpsert holds for id once msg is stored
Noted(id, msg) ==
    LET had == id \in DOMAIN lastUpsert
        old == IF had THEN lastUpsert[id].ow ELSE 0
        replaces == had /\ lastUpsert[id].msg # msg
        ow == IF replaces /\ "late" \in track /\ pc # "sleep" THEN 2
              ELSE IF replaces /\ "ow" \in track /\ old = 0 THEN 1
              ELSE old
        at == IF "seen" \in track THEN clock ELSE StartTime
    IN  [msg |-> msg, ow |-> ow, at |-> at]

\* the variables of the event loop and of its tasks, and their histories
loopVars == <<latest_updates, last_geo_chat_sent, tx_lock, clock, pc, keys, cur,
              inflight, sleepLeft, lastUpsert, curOw, pliAttempts, chatAttempts,
              builtChat, raised, lastCheck, lastPli, passKeys, passStart, curSeen,
              denied, passSent>>

\* the process ends during start-up: nothing of the module closes the interface
StartupExit(cause) ==
    /\ main' = "exited"
    /\ exitCause' = cause
    /\ UNCHANGED <<interface, running>>

(* Module level: interface = meshtastic.serial_interface.SerialInterface(); *)
(* when no device answers the constructor raises and the process ends.      *)
CreateInterface(ok) ==
    /\ main = "create_interface"
    /\ IF ok
       THEN /\ interface' = "open"
            /\ main' = "bind_mcast"
            /\ UNCHANGED <<running, exitCause>>
       ELSE StartupExit("no_radio")
    /\ UNCHANGED <<loopVars, track, feed, pace, arg, ret, fpvVars>>

(* Module level: the multicast socket; sock.bind and setsockopt raise       *)
(* OSError (~ok), which nothing catches.                                    *)
BindMulticast(ok) ==
    /\ main = "bind_mcast"
    /\ IF ok
       THEN /\ main' = "bind_zmq"
            /\ UNCHANGED <<interface, running, exitCause>>
       ELSE StartupExit("bind_mcast")
    /\ UNCHANGED <<loopVars, track, feed, pace, arg, ret, fpvVars>>

(* Module level: zmq_socket.bind(zmq_endpoint); on zmq.ZMQError the module  *)
(* logs and calls exit(1).                                                  *)
BindZmq(ok) ==
    /\ main = "bind_zmq"
    /\ IF ok
       THEN /\ main' = "init_gps"
            /\ UNCHANGED <<interface, running, exitCause>>
       ELSE StartupExit("bind_zmq")
    /\ UNCHANGED <<loopVars, track, feed, pace, arg, ret, fpvVars>>

(* Module level: init_gps_connection (which catches its own errors), then   *)
(* __main__ enters the try block and asyncio.run(main_async()) creates the  *)
(* tasks.                                                                   *)
StartLoop ==
    /\ main = "init_gps"
    /\ main' = "run"
    /\ running' = TRUE
    /\ UNCHANGED <<interface, exitCause>>
    /\ UNCHANGED <<loopVars, track, feed, pace, arg, ret, fpvVars>>

(* SIGINT. Inside asyncio.run the tasks are cancelled at their awaits,      *)
(* KeyboardInterrupt reaches the except clause of __main__ and the finally  *)
(* clause runs; during start-up KeyboardInterrupt is raised at module level *)
(* where nothing catches it.                                                *)
Interrupt ==
    /\ IF running
       THEN /\ pc \in SuspendPoints
            /\ Shutdown("interrupt")
            /\ UNCHANGED <<latest_updates, last_geo_chat_sent, clock, keys, cur,
                           sleepLeft, lastUpsert, curOw, pliAttempts, chatAttempts,
                           builtChat, raised, lastCheck, lastPli, passKeys,
                           passStart, curSeen, denied, passSent>>
       ELSE /\ main \in {"bind_mcast", "bind_zmq", "init_gps"}
            /\ StartupExit("interrupt_startup")
            /\ UNCHANGED loopVars
    /\ UNCHANGED <<track, feed, pace, arg, ret, fpvVars>>

\* history: passSent after the step, read off the step itself
Bumped(id, field) ==
    LET old == IF id \in DOMAIN passSent THEN passSent[id]
               ELSE [pops |-> 0, pli |-> 0, chat |-> 0]
    IN  MapSet(passSent, id, [old EXCEPT ![field] = @ + 1])

NotePass ==
    passSent' =
        IF "pass" \notin track THEN passSent
        ELSE IF pc = "pop" /\ pc' = "sleep" THEN <<>>
        ELSE IF pc = "pop" /\ pc' = "build_pli" THEN Bumped(Head(keys), "pops")
        ELSE IF pc = "build_pli" /\ pc' = "pli_inflight"
             THEN Bumped(shorten_callsign(cur.callsign), "pli")
        ELSE IF pc = "throttle" /\ pc' = "chat_inflight"
             THEN Bumped(shorten_callsign(cur.callsign), "chat")
        ELSE passSent

(* cot_receiver: one iteration of its loop, from the datagram handed over   *)
(* by sock.recvfrom to the next await.                                      *)
CotReceive(d) ==
    /\ running
    /\ UNCHANGED <<track, feed, pace, arg, ret, fpvVars>>
    /\ pc \in SuspendPoints
    /\ IF d.ok
       THEN LET msg == parse_cot(d)[1]
                unique_id == shorten_callsign(msg.callsign)
            IN  /\ RegHas(latest_updates, unique_id) \/ Len(latest_updates) < MaxEntries
                /\ latest_updates' = RegSet(latest_updates, unique_id, msg)
                /\ lastUpsert' = MapSet(lastUpsert, unique_id, Noted(unique_id, msg))
                /\ denied' = denied \ {unique_id}
                /\ UNCHANGED <<pc, tx_lock, inflight, running, main, interface,
                               exitCause>>
       ELSE \* parse_cot raises: the exception leaves cot_receiver
            /\ Shutdown("malformed")
            /\ UNCHANGED <<latest_updates, lastUpsert, denied>>
    /\ UNCHANGED <<last_geo_chat_sent, clock, keys, cur, sleepLeft, curOw,
                   pliAttempts, chatAttempts, builtChat, raised, lastCheck,
                   lastPli, passKeys,
                   passStart, curSeen>>
    /\ NotePass

(* Wall time passes while the tasks are suspended. *)
Tick ==
    /\ running
    /\ UNCHANGED <<track, feed, pace, arg, ret, fpvVars, main, interface, exitCause>>
    /\ pc \in SuspendPoints
    /\ \E d \in pace.steps :
          /\ clock + d <= StartTime + pace.horizon
          /\ clock' = clock + d
          /\ sleepLeft' = IF sleepLeft > d THEN sleepLeft - d ELSE 0
    /\ UNCHANGED <<latest_updates, last_geo_chat_sent, tx_lock, pc, keys, cur,
                   inflight, running, lastUpsert, curOw, pliAttempts,
                   chatAttempts, builtChat, raised, lastCheck, lastPli,
                   passKeys,
                   passStart, curSeen, denied>>
    /\ NotePass

(* flush_updates: asyncio.sleep(interval) returns; `if latest_updates:` and *)
(* `keys = list(latest_updates.keys())`.                                    *)
FlushWake ==
    /\ running
    /\ UNCHANGED <<track, feed, pace, arg, ret, fpvVars, main, interface, exitCause>>
    /\ pc = "sleep"
    /\ sleepLeft = 0
    /\ IF latest_updates # <<>>
       THEN /\ keys' = RegIds(latest_updates)
            /\ passKeys' = RegIds(latest_updates)
            /\ passStart' = IF "seen" \in track THEN clock ELSE StartTime
            /\ pc' = "pop"
            /\ lastUpsert' = [k \in DOMAIN lastUpsert |->
                                 [lastUpsert[k] EXCEPT !.ow = IF @ = 2 THEN 1 ELSE @]]
            /\ UNCHANGED sleepLeft
       ELSE /\ sleepLeft' = FLUSH_INTERVAL
            /\ UNCHANGED <<keys, passKeys, passStart, pc, lastUpsert>>
    /\ UNCHANGED <<latest_updates, last_geo_chat_sent, tx_lock, clock, cur,
                   inflight, running, curOw, pliAttempts, chatAttempts,
                   builtChat, raised, lastCheck, lastPli, curSeen, denied>>
    /\ NotePass

(* flush_updates: `for key in keys: msg = latest_updates.pop(key, None)`,   *)
(* or the end of the for loop and the start of asyncio.sleep(interval).     *)
FlushPop ==
    /\ running
    /\ UNCHANGED <<track, feed, pace, arg, ret, fpvVars, main, interface, exitCause>>
    /\ pc = "pop"
    /\ IF keys = <<>>
       THEN /\ pc' = "sleep"
            /\ sleepLeft' = FLUSH_INTERVAL
            /\ cur' = None
            /\ curOw' = 0
            /\ passKeys' = <<>>
            /\ curSeen' = StartTime
            /\ UNCHANGED <<keys, latest_updates, lastUpsert>>
       ELSE LET key == Head(keys)
                msg == RegGet(latest_updates, key)
            IN  /\ latest_updates' = RegDel(latest_updates, key)
                /\ lastUpsert' = MapDel(lastUpsert, key)
                /\ IF msg # None
                   THEN /\ cur' = msg
                        /\ curOw' = IF key \in DOMAIN lastUpsert
                                    THEN lastUpsert[key].ow ELSE 0
                        /\ curSeen' = IF key \in DOMAIN lastUpsert
                                      THEN lastUpsert[key].at ELSE StartTime
                        /\ pc' = "build_pli"
                        /\ UNCHANGED keys
                   ELSE /\ keys' = Tail(keys)
                        /\ cur' = None
                        /\ curOw' = 0
                        /\ curSeen' = StartTime
                        /\ UNCHANGED pc
                /\ UNCHANGED <<sleepLeft, passKeys>>
    /\ pliAttempts' = 0
    /\ chatAttempts' = 0
    /\ builtChat' = 0
    /\ raised' = FALSE
    /\ lastCheck' = None
    /\ UNCHANGED <<last_geo_chat_sent, tx_lock, clock, inflight, running, lastPli,
                   passStart, denied>>
    /\ NotePass

(* send_packets_async: build the PLI packet; if there is one, take tx_lock  *)
(* and hand the packet to interface.sendData in the executor.               *)
SendPli ==
    /\ running
    /\ UNCHANGED <<track, feed, pace, arg, ret, fpvVars, main, interface, exitCause>>
    /\ pc = "build_pli"
    /\ LET pli_packet == build_atak_pli_packet(cur)
       IN  IF pli_packet # None
           THEN /\ ~tx_lock
                /\ tx_lock' = LockEnter(tx_lock)
                /\ inflight' = inflight \cup {pli_packet}
                /\ pliAttempts' = pliAttempts + 1
                /\ lastPli' = IF "pli" \in track
                              THEN [id |-> shorten_callsign(cur.callsign),
                                    type |-> cur.type, at |-> clock,
                                    gap |-> IF lastPli # None
                                               /\ lastPli.id = shorten_callsign(cur.callsign)
                                            THEN clock - lastPli.at ELSE -1]
                              ELSE lastPli
                /\ pc' = "pli_inflight"
           ELSE /\ pc' = "geochat_filter"
                /\ UNCHANGED <<tx_lock, inflight, pliAttempts, lastPli>>
    /\ UNCHANGED <<latest_updates, last_geo_chat_sent, clock, keys, cur, sleepLeft,
                   running, lastUpsert, curOw, chatAttempts, builtChat, raised,
                   lastCheck, passKeys,
                   passStart, curSeen, denied>>
    /\ NotePass

(* interface.sendData returns (ok) or raises (~ok) for the PLI packet; the  *)
(* exception is caught and logged, and the `async with` block is left.      *)
PliSendDone(ok) ==
    /\ running
    /\ UNCHANGED <<track, feed, pace, arg, ret, fpvVars, main, interface, exitCause>>
    /\ pc = "pli_inflight"
    /\ inflight' = {}
    /\ tx_lock' = LockExit(tx_lock, ok)
    /\ raised' = ~ok
    /\ pc' = AfterPliSend(ok)
    /\ UNCHANGED <<latest_updates, last_geo_chat_sent, clock, keys, cur, sleepLeft,
                   running, lastUpsert, curOw, pliAttempts, chatAttempts,
                   builtChat, lastCheck, lastPli, passKeys,
                   passStart, curSeen, denied>>
    /\ NotePass

(* send_packets_async: `if msg.get("type") not in [...]: return`.           *)
GeoChatFilter ==
    /\ running
    /\ UNCHANGED <<track, feed, pace, arg, ret, fpvVars, main, interface, exitCause>>
    /\ pc = "geochat_filter"
    /\ IF GeoChatEligible(cur)
       THEN /\ pc' = "throttle"
            /\ UNCHANGED keys
       ELSE /\ pc' = "pop"
            /\ keys' = Tail(keys)
    /\ raised' = FALSE
    /\ UNCHANGED <<latest_updates, last_geo_chat_sent, tx_lock, clock, cur,
                   inflight, sleepLeft, running, lastUpsert, curOw, pliAttempts,
                   chatAttempts, builtChat, lastCheck, lastPli, passKeys,
                   passStart, curSeen, denied>>
    /\ NotePass

(* send_packets_async: the GeoChat throttle; when it allows, record now,    *)
(* build the GeoChat packet, take tx_lock and hand it to sendData.          *)
GeoChatThrottle ==
    /\ running
    /\ UNCHANGED <<track, feed, pace, arg, ret, fpvVars>>
    /\ pc = "throttle"
    /\ LET unique_id == shorten_callsign(cur.callsign)
           now == clock
           last_time == LastGet(last_geo_chat_sent, unique_id)
           allowed == ThrottleAllows(now, last_time)
       IN  /\ last_geo_chat_sent' = ThrottleRecord(last_geo_chat_sent, unique_id, now, allowed)
           /\ lastCheck' = IF "check" \in track
                            THEN [id |-> unique_id, now |-> now, last_time |-> last_time,
                                  first |-> unique_id \notin DOMAIN last_geo_chat_sent,
                                  granted |-> allowed]
                            ELSE lastCheck
           /\ IF allowed
              THEN LET geochat_packet == build_atak_geochat_packet(cur)
                   IN  /\ builtChat' = builtChat + 1
                       /\ IF IsRaise(geochat_packet)
                          THEN \* the exception leaves send_packets_async and flush_updates
                               /\ Shutdown("builder_raised")
                               /\ UNCHANGED <<chatAttempts, keys, denied>>
                          ELSE /\ ~tx_lock
                               /\ tx_lock' = LockEnter(tx_lock)
                               /\ inflight' = inflight \cup {geochat_packet}
                               /\ chatAttempts' = chatAttempts + 1
                               /\ pc' = "chat_inflight"
                               /\ UNCHANGED <<keys, denied, running, main, interface,
                                              exitCause>>
              ELSE /\ pc' = "pop"
                   /\ keys' = Tail(keys)
                   /\ denied' = IF "denied" \in track /\ unique_id \notin DOMAIN lastUpsert
                                 THEN denied \cup {unique_id} ELSE denied
                   /\ UNCHANGED <<builtChat, tx_lock, inflight, chatAttempts, running,
                                  main, interface, exitCause>>
    /\ UNCHANGED <<latest_updates, clock, cur, sleepLeft, lastUpsert,
                   curOw, pliAttempts, raised, lastPli, passKeys,
                   passStart, curSeen>>
    /\ NotePass

(* interface.sendData returns (ok) or raises (~ok) for the GeoChat packet.  *)
ChatSendDone(ok) ==
    /\ running
    /\ UNCHANGED <<track, feed, pace, arg, ret, fpvVars, main, interface, exitCause>>
    /\ pc = "chat_inflight"
    /\ inflight' = {}
    /\ tx_lock' = LockExit(tx_lock, ok)
    /\ raised' = ~ok
    /\ pc' = AfterChatSend(ok)
    /\ keys' = Tail(keys)
    /\ UNCHANGED <<latest_updates, last_geo_chat_sent, clock, cur, sleepLeft,
                   running, lastUpsert, curOw, pliAttempts, chatAttempts,
                   builtChat, lastCheck, lastPli, passKeys,
                   passStart, curSeen, denied>>
    /\ NotePass

Next ==
    \/ \E ok \in BOOLEAN : CreateInterface(ok)
    \/ \E ok \in BOOLEAN : BindMulticast(ok)
    \/ \E ok \in BOOLEAN : BindZmq(ok)
    \/ StartLoop
    \/ Interrupt
    \/ \E d \in feed : CotReceive(d)
    \/ Tick
    \/ FlushWake
    \/ FlushPop
    \/ SendPli
    \/ \E ok \in BOOLEAN : PliSendDone(ok)
    \/ GeoChatFilter
    \/ GeoChatThrottle
    \/ \E ok \in BOOLEAN : ChatSendDone(ok)

Spec == Init /\ [][Next]_vars

\* the drone, home and pilot events (two identifiers, two records each) and
\* the bytes that do not decode
CoalescingFeed ==
    {d \in Datagrams : ~d.ok \/ startswith(d.uid, P_DRONE)
                               \/ startswith(d.uid, P_HOME)
                               \/ startswith(d.uid, P_PILOT)}

\* the same program fed with CoalescingFeed, keeping the history of replaced records
InitOw == InitWith({"ow", "late"}, CoalescingFeed)
SpecOw == InitOw /\ [][Next]_vars

\* the same program, keeping the history of throttle checks
InitCheck == InitWith({"check"}, Datagrams)
SpecCheck == InitCheck /\ [][Next]_vars

\* the same program, keeping the history of PLI sends
InitPli == InitWith({"pli"}, Datagrams)
SpecPli == InitPli /\ [][Next]_vars

\* the home and drone events: two identifiers
SlowFeed ==
    {d \in Datagrams : d.ok /\ (startswith(d.uid, P_HOME) \/ startswith(d.uid, P_DRONE))}

\* seconds a blocking interface.sendData call (or a suspension of the loop) lasts
\* when the radio link is slow
SlowStep == 30 * GEO_CHAT_INTERVAL + 1

\* the same program on a slow radio link, keeping the time each record was stored
InitSlow == InitPaced({"seen"}, SlowFeed,
                      [steps |-> {SlowStep}, horizon |-> SlowStep * (MaxElapsed \div 5)])
SpecSlow == InitSlow /\ [][Next]_vars

\* the same program fed with CoalescingFeed, keeping the history of denied records
InitDenied == InitWith({"denied"}, CoalescingFeed)
SpecDenied == InitDenied /\ [][Next]_vars

\* the same program fed with CoalescingFeed, keeping the history of the pass
InitPass == InitWith({"pass"}, CoalescingFeed)
SpecPass == InitPass /\ [][Next]_vars

----------------------------------------------------------------------------
(* The functions applied on their own *)

\* integers around the two ends of the 16-bit range
ClampInputs == (-3..3) \cup (65533..65538) \cup {-65536, 32767, 131071}

\* the ninth and eighth decimal places around the rounding points
Frac8Inputs == {0, 4, 5, 6, 14, 15, 16, 50000000, 12345670, 12345674, 12345675,
                12345678, 99999994, 99999996}

LatInputs == [neg : BOOLEAN, whole : {0, 47, 89}, frac8 : Frac8Inputs]
LonInputs == [neg : BOOLEAN, whole : {12, 164, 179}, frac8 : {0, 12345678}]

\* the remarks of the WarDragon status event as DragonSync writes them
StatusRemarks ==
    <<"C","P","U"," ","U","s","a","g","e",":"," ","4","2",".","5","%",",",
      " ","T","e","m","p","e","r","a","t","u","r","e",":"," ","3","8",".",
      "1","°","C",","," ","P","l","u","t","o"," ","T","e","m","p",":"," ",
      "0",".","7","2","/","1",".","0",","," ","Z","y","n","q"," ","T","e",
      "m","p",":"," ","N","/","A">>

\* remarks that spell the same values with other labels
ShortLabelRemarks ==
    <<"C","P","U"," ","U","s","a","g","e",":"," ","4","2",".","5","%"," ",
      "T","e","m","p",":"," ","3","8",".","1","°","C"," ","P","l","u","t",
      "o",":"," ","0",".","7","2","/","1",".","0"," ","Z","y","n","q",":",
      " ","N","/","A">>

RemarksInputs == {StatusRemarks, ShortLabelRemarks, <<>>, PyNone}

\* messages as parse_cot builds them
PliMsgs ==
    { [callsign |-> P_DRONE \o <<"A","B","1","2","3","4">>, lat |-> la, lon |-> lo,
       alt |-> 50, remarks |-> <<>>, type |-> "drone"] :
          la \in LatInputs, lo \in LonInputs }

\* messages that carry the optional speed and course keys
MovingMsgs ==
    { [callsign |-> P_DRONE \o <<"A","B","1","2","3","4">>, lat |-> EventLat,
       lon |-> EventLon, alt |-> 50, remarks |-> <<>>, type |-> "drone",
       speed |-> sp, course |-> co] :
          sp \in ClampInputs, co \in {-1, 0, 359, 65536} }

SystemMsgs ==
    { [callsign |-> P_WARDRAGON \o <<"0","0","1","8","a","3">>, lat |-> EventLat,
       lon |-> EventLon, alt |-> 50, remarks |-> r, type |-> "system"] :
          r \in RemarksInputs }

\* the program is not started; one function and one argument are chosen
InitPure ==
    /\ ProgramInit({}, {}, [steps |-> {}, horizon |-> 0])
    /\ FpvOff
    /\ ret = None
    /\ arg \in { [fn |-> "clamp_int", val |-> x] : x \in ClampInputs }
          \cup { [fn |-> "build_atak_pli_packet", msg |-> m] : m \in PliMsgs \cup MovingMsgs }
          \cup { [fn |-> "build_atak_geochat_packet", msg |-> m] : m \in SystemMsgs }

programVars == <<loopVars, running, main, interface, exitCause, track, feed, pace>>

\* clamp_int(val, 16)
ApplyClamp ==
    /\ arg.fn = "clamp_int"
    /\ ret = None
    /\ ret' = [out |-> clamp_int(arg.val, 16)]
    /\ UNCHANGED <<programVars, fpvVars, arg>>

\* clamp_int of the value clamp_int returned
ApplyClampAgain ==
    /\ arg.fn = "clamp_int"
    /\ ret # None
    /\ "again" \notin DOMAIN ret
    /\ ret' = [out |-> ret.out, again |-> clamp_int(ret.out, 16)]
    /\ UNCHANGED <<programVars, fpvVars, arg>>

ApplyBuildPli ==
    /\ arg.fn = "build_atak_pli_packet"
    /\ ret = None
    /\ ret' = build_atak_pli_packet(arg.msg)
    /\ UNCHANGED <<programVars, fpvVars, arg>>

ApplyBuildGeoChat ==
    /\ arg.fn = "build_atak_geochat_packet"
    /\ ret = None
    /\ ret' = build_atak_geochat_packet(arg.msg)
    /\ UNCHANGED <<programVars, fpvVars, arg>>

NextPure ==
    \/ ApplyClamp
    \/ ApplyClampAgain
    \/ ApplyBuildPli
    \/ ApplyBuildGeoChat

SpecPure == InitPure /\ [][NextPure]_vars

\* the WarDragon status event with its remarks element filled, empty
\* (xmltodict gives None for an element without text) or left out
RemarksFeed ==
    {[d EXCEPT !.remarks = r] :
        d \in {e \in Datagrams : e.ok /\ startswith(e.uid, P_WARDRAGON)},
        r \in {StatusRemarks, PyNone, <<>>}}

\* the same program fed with RemarksFeed
InitRemarks == InitWith({}, RemarksFeed)
SpecRemarks == InitRemarks /\ [][Next]_vars

----------------------------------------------------------------------------
(* The FPV relay: fpv_receiver and process_rx_data of                       *)
(* dragonsync_meshtastic.py, and the main loop of fpv_detector.py.  Both    *)
(* read lines from a serial port, decode them with json.loads, attach the   *)
(* GPS position and publish the result on a ZMQ socket.                     *)
(*                                                                         *)
(* A JSON value is a record tagged with its Python type; a dict keeps its   *)
(* items in insertion order.                                                *)

JNone == [t |-> "NoneType"]
JInt(n) == [t |-> "int", n |-> n]
JStr(s) == [t |-> "str", s |-> s]
JBool(b) == [t |-> "bool", b |-> b]
JFloat(d) == [t |-> "float", deg |-> d]
JDict(items) == [t |-> "dict", items |-> items]

\* key in d
DictHas(items, key) == \E i \in 1..Len(items) : items[i].k = key

\* d.get(key, default)
DictGet(items, key, default) ==
    IF DictHas(items, key)
    THEN items[CHOOSE i \in 1..Len(items) : items[i].k = key].v
    ELSE default

\* d[key] = val
DictSet(items, key, val) ==
    IF DictHas(items, key)
    THEN [i \in 1..Len(items) |->
            IF items[i].k = key THEN [k |-> key, v |-> val] ELSE items[i]]
    ELSE Append(items, [k |-> key, v |-> val])

(* json.loads for the grammar the serial lines of FpvLines are written in:  *)
(* objects, strings without escapes, integers, null, true and false, with   *)
(* white space between the tokens.  A parse returns the value and the       *)
(* position behind it, or fails.                                            *)
JsonWs == {" ", "\t", "\n", "\r"}

RECURSIVE SkipWs(_, _)
SkipWs(s, i) == IF i <= Len(s) /\ s[i] \in JsonWs THEN SkipWs(s, i + 1) ELSE i

\* the position behind the run of digits that starts at i
RECURSIVE DigitsEnd(_, _)
DigitsEnd(s, i) == IF i <= Len(s) /\ s[i] \in Digits THEN DigitsEnd(s, i + 1) ELSE i

DigitVal(c) ==
    CHOOSE d \in 0..9 : <<"0","1","2","3","4","5","6","7","8","9">>[d + 1] = c

RECURSIVE IntOf(_)
IntOf(ds) ==
    IF ds = <<>> THEN 0
    ELSE IntOf(SubSeq(ds, 1, Len(ds) - 1)) * 10 + DigitVal(ds[Len(ds)])

\* the position of the first '"' from i on, Len(s) + 1 when there is none
RECURSIVE QuoteAt(_, _)
QuoteAt(s, i) == IF i <= Len(s) /\ s[i] # "\"" THEN QuoteAt(s, i + 1) ELSE i

ParseFail == [ok |-> FALSE]
Parsed(v, n) == [ok |-> TRUE, val |-> v, next |-> n]

\* the characters of the string whose opening '"' stands at i
ParseString(s, i) ==
    LET e == QuoteAt(s, i + 1)
    IN  IF e > Len(s) THEN ParseFail ELSE Parsed(SubSeq(s, i + 1, e - 1), e + 1)

\* an integer: an optional '-', then 0 or a run of digits that starts with 1..9
ParseInt(s, i) ==
    LET neg == s[i] = "-"
        b == IF neg THEN i + 1 ELSE i
    IN  IF b > Len(s) \/ s[b] \notin Digits THEN ParseFail
        ELSE LET e == IF s[b] = "0" THEN b + 1 ELSE DigitsEnd(s, b)
                 n == IntOf(SubSeq(s, b, e - 1))
             IN  Parsed(JInt(IF neg THEN -n ELSE n), e)

RECURSIVE ParseValue(_, _), ParseMembers(_, _, _)

ParseValue(s, from) ==
    LET i == SkipWs(s, from)
    IN  IF i > Len(s) THEN ParseFail
        ELSE IF s[i] = "{" THEN ParseMembers(s, SkipWs(s, i + 1), <<>>)
        ELSE IF s[i] = "\"" THEN
            LET r == ParseString(s, i)
            IN  IF r.ok THEN Parsed(JStr(r.val), r.next) ELSE ParseFail
        ELSE IF s[i] = "-" \/ s[i] \in Digits THEN ParseInt(s, i)
        ELSE IF HasAt(s, i, <<"n","u","l","l">>) THEN Parsed(JNone, i + 4)
        ELSE IF HasAt(s, i, <<"t","r","u","e">>) THEN Parsed(JBool(TRUE), i + 4)
        ELSE IF HasAt(s, i, <<"f","a","l","s","e">>) THEN Parsed(JBool(FALSE), i + 5)
        ELSE ParseFail

\* the members of an object from i on: a '}' when none was read yet, or a key
ParseMembers(s, i, acc) ==
    IF i > Len(s) THEN ParseFail
    ELSE IF s[i] = "}" /\ acc = <<>> THEN Parsed(JDict(acc), i + 1)
    ELSE IF s[i] # "\"" THEN ParseFail
    ELSE LET key == ParseString(s, i)
         IN  IF ~key.ok THEN ParseFail
             ELSE LET c == SkipWs(s, key.next)
                  IN  IF c > Len(s) \/ s[c] # ":" THEN ParseFail
                      ELSE LET v == ParseValue(s, c + 1)
                           IN  IF ~v.ok THEN ParseFail
                               ELSE LET grown == DictSet(acc, key.val, v.val)
                                        d == SkipWs(s, v.next)
                                    IN  IF d > Len(s) THEN ParseFail
                                        ELSE IF s[d] = "}"
                                        THEN Parsed(JDict(grown), d + 1)
                                        ELSE IF s[d] = ","
                                        THEN ParseMembers(s, SkipWs(s, d + 1), grown)
                                        ELSE ParseFail

\* json.loads(line): the value, or JSONDecodeError when no value stands at
\* the start or something other than white space follows it
json_loads(s) ==
    LET r == ParseValue(s, 1)
    IN  IF r.ok /\ SkipWs(s, r.next) > Len(s) THEN r.val
        ELSE Raise("JSONDecodeError")

\* "msg"
K_MSG ==
    <<"m","s","g">>
\* "from"
K_FROM ==
    <<"f","r","o","m">>
\* "node"
K_NODE ==
    <<"n","o","d","e">>
\* "type"
K_TYPE ==
    <<"t","y","p","e">>
\* "stat"
K_STAT ==
    <<"s","t","a","t">>
\* "time"
K_TIME ==
    <<"t","i","m","e">>
\* "rssi"
K_RSSI ==
    <<"r","s","s","i">>
\* "freq"
K_FREQ ==
    <<"f","r","e","q">>
\* "var"
K_VAR ==
    <<"v","a","r">>
\* "data"
K_DATA ==
    <<"d","a","t","a">>
\* "source_node"
K_SOURCE_NODE ==
    <<"s","o","u","r","c","e","_","n","o","d","e">>
\* "message_type"
K_MESSAGE_TYPE ==
    <<"m","e","s","s","a","g","e","_","t","y","p","e">>
\* "status"
K_STATUS ==
    <<"s","t","a","t","u","s">>
\* "gps_lat"
K_GPS_LAT ==
    <<"g","p","s","_","l","a","t">>
\* "gps_lon"
K_GPS_LON ==
    <<"g","p","s","_","l","o","n">>
\* "unknown"
S_UNKNOWN ==
    <<"u","n","k","n","o","w","n">>
\* "nodeMsg"
S_NODEMSG ==
    <<"n","o","d","e","M","s","g">>
\* "nodeAlert"
S_NODEALERT ==
    <<"n","o","d","e","A","l","e","r","t">>

\* a contact alert of the detector node: {"msg":{"type":"nodeAlert","stat":"NEW CONTACT LOCK","rssi":-70},"from":{"node":"n1"}}
L_ALERT ==
    <<"{","\"","m","s","g","\"",":","{","\"","t","y","p","e","\"",":","\"",
      "n","o","d","e","A","l","e","r","t","\"",",","\"","s","t","a","t","\"",
      ":","\"","N","E","W"," ","C","O","N","T","A","C","T"," ","L","O","C",
      "K","\"",",","\"","r","s","s","i","\"",":","-","7","0","}",",","\"","f",
      "r","o","m","\"",":","{","\"","n","o","d","e","\"",":","\"","n","1",
      "\"","}","}">>
\* the boot message of the detector node: {"msg": {"type": "nodeMsg", "stat": "NODE_START"}}
L_BOOT ==
    <<"{","\"","m","s","g","\"",":"," ","{","\"","t","y","p","e","\"",":"," ",
      "\"","n","o","d","e","M","s","g","\"",","," ","\"","s","t","a","t","\"",
      ":"," ","\"","N","O","D","E","_","S","T","A","R","T","\"","}","}">>
\* an object without members: {}
L_EMPTY ==
    <<"{","}">>
\* an object that has a gps_lat member of its own: {"gps_lat":7}
L_HASGPS ==
    <<"{","\"","g","p","s","_","l","a","t","\"",":","7","}">>
\* a node message whose status is a number: {"msg":{"type":"nodeMsg","stat":5}}
L_STATNUM ==
    <<"{","\"","m","s","g","\"",":","{","\"","t","y","p","e","\"",":","\"",
      "n","o","d","e","M","s","g","\"",",","\"","s","t","a","t","\"",":","5",
      "}","}">>
\* a number: 42
L_NUMBER ==
    <<"4","2">>
\* null: null
L_NULL ==
    <<"n","u","l","l">>
\* text that is not JSON: RSSI -70
L_TEXT ==
    <<"R","S","S","I"," ","-","7","0">>
\* an object cut off by the serial link: {"msg":{"type":"nodeAlert",
L_CUT ==
    <<"{","\"","m","s","g","\"",":","{","\"","t","y","p","e","\"",":","\"",
      "n","o","d","e","A","l","e","r","t","\"",",">>

\* the lines the serial port delivers (read_fpv_serial and read_serial strip
\* them and skip the empty ones)
FpvLines ==
    {L_ALERT, L_BOOT, L_EMPTY, L_HASGPS, L_STATNUM, L_NUMBER, L_NULL, L_TEXT, L_CUT}

\* number of serial lines the model follows
MaxLines == 3

\* what get_gps_location returns: the fix gpsd reports, or (0.0, 0.0)
GpsFixes == {<<EventLat, EventLon>>, <<Zero, Zero>>}

\* the relay of one of the two programs is started, with or without
\* --stationary; the CoT side of dragonsync_meshtastic.py is left at rest
InitFpv ==
    /\ ProgramInit({}, {}, [steps |-> {}, horizon |-> 0])
    /\ arg = None
    /\ ret = None
    /\ fpv_prog \in {"dragonsync_meshtastic", "fpv_detector"}
    /\ stationary \in BOOLEAN
    /\ gps_socket = FALSE
    /\ static_lat = Zero
    /\ static_lon = Zero
    /\ fpv_pc = "init_gps"
    /\ line = None
    /\ zmq_sent = <<>>
    /\ fpvSeen = <<>>

(* Start-up: init_gps_connection gives (None, None) when gpsd does not      *)
(* answer (~connected).  With --stationary the position is read once        *)
(* (get_gps_location gives (0.0, 0.0) without a connection) and the         *)
(* connection is closed; without it the connection is kept.                 *)
InitGps(connected, fix) ==
    /\ fpv_pc = "init_gps"
    /\ IF stationary
       THEN /\ static_lat' = (IF connected THEN fix[1] ELSE Zero)
            /\ static_lon' = (IF connected THEN fix[2] ELSE Zero)
            /\ gps_socket' = FALSE
       ELSE /\ gps_socket' = connected
            /\ UNCHANGED <<static_lat, static_lon>>
    /\ fpv_pc' = "read"
    /\ UNCHANGED <<programVars, arg, ret, fpv_prog, stationary, line, zmq_sent, fpvSeen>>

(* The serial generator yields the next line: line = await                  *)
(* loop.run_in_executor(None, next, fpv_gen) in fpv_receiver, the head of   *)
(* `for line in read_serial(...)` in fpv_detector.py.                       *)
ReadLine(l) ==
    /\ fpv_pc = "read"
    /\ Len(fpvSeen) < MaxLines
    /\ line' = l
    /\ fpv_pc' = "process"
    /\ fpvSeen' = Append(fpvSeen, [valid |-> ~IsRaise(json_loads(l)),
                                   before |-> Len(zmq_sent)])
    /\ UNCHANGED <<programVars, arg, ret, fpv_prog, stationary, gps_socket,
                   static_lat, static_lon, zmq_sent>>

\* the position attached to a message when get_gps_location would give fix
Position(fix) ==
    IF ~stationary /\ gps_socket THEN fix ELSE <<static_lat, static_lon>>

\* msg["gps_lat"] = lat; msg["gps_lon"] = lon
WithPosition(items, pos) ==
    DictSet(DictSet(items, K_GPS_LAT, JFloat(pos[1])), K_GPS_LON, JFloat(pos[2]))

\* json.dumps and zmq_socket.send_string inside their try block: an
\* exception of send_string (~ok) is logged
Publish(d, ok) == zmq_sent' = Append(zmq_sent, [msg |-> d, ok |-> ok])

(* process_rx_data(line), called by fpv_receiver.  A line json.loads cannot *)
(* decode is logged and dropped.  msg["gps_lat"] = lat stands outside the   *)
(* try blocks: when the decoded value is not a dict it raises TypeError,    *)
(* which leaves process_rx_data and fpv_receiver.                           *)
process_rx_data(fix, ok) ==
    /\ fpv_prog = "dragonsync_meshtastic"
    /\ fpv_pc = "process"
    /\ LET msg == json_loads(line)
       IN  IF IsRaise(msg)
           THEN /\ fpv_pc' = "read"
                /\ UNCHANGED zmq_sent
           ELSE IF msg.t # "dict"
           THEN /\ fpv_pc' = "raised"
                /\ UNCHANGED zmq_sent
           ELSE /\ Publish(JDict(WithPosition(msg.items, Position(fix))), ok)
                /\ fpv_pc' = "read"
    /\ UNCHANGED <<programVars, arg, ret, fpv_prog, stationary, gps_socket,
                   static_lat, static_lon, line, fpvSeen>>

(* process_message(data) of fpv_detector.py: data.get and msg.get raise     *)
(* AttributeError on a value that is not a dict; the function catches it    *)
(* and returns {}.                                                          *)
process_message(data) ==
    IF data.t # "dict" THEN JDict(<<>>)
    ELSE LET msg == DictGet(data.items, K_MSG, JDict(<<>>))
             from == DictGet(data.items, K_FROM, JDict(<<>>))
         IN  IF from.t # "dict" \/ msg.t # "dict" THEN JDict(<<>>)
             ELSE JDict(<<
                 [k |-> K_SOURCE_NODE, v |-> DictGet(from.items, K_NODE, JStr(S_UNKNOWN))],
                 [k |-> K_MESSAGE_TYPE, v |-> DictGet(msg.items, K_TYPE, JStr(<<>>))],
                 [k |-> K_STATUS, v |-> DictGet(msg.items, K_STAT, JStr(<<>>))],
                 [k |-> K_TIME, v |-> DictGet(msg.items, K_TIME, JNone)],
                 [k |-> K_RSSI, v |-> DictGet(msg.items, K_RSSI, JNone)],
                 [k |-> K_FREQ, v |-> DictGet(msg.items, K_FREQ, JNone)],
                 [k |-> K_VAR, v |-> DictGet(msg.items, K_VAR, JNone)],
                 [k |-> K_DATA, v |-> DictGet(msg.items, K_DATA, JNone)] >>)

(* The logging branches of the main loop of fpv_detector.py raise when      *)
(* status is not what they expect: status.startswith for a nodeMsg          *)
(* (AttributeError unless status is a str), `"..." in status` for a         *)
(* nodeAlert (TypeError unless status is a str or a container).             *)
LoggingRaises(processed) ==
    LET message_type == DictGet(processed.items, K_MESSAGE_TYPE, JStr(<<>>))
        status == DictGet(processed.items, K_STATUS, JStr(<<>>))
    IN  IF message_type.t = "str" /\ message_type.s = S_NODEMSG
        THEN status.t # "str"
        ELSE IF message_type.t = "str" /\ message_type.s = S_NODEALERT
        THEN status.t \notin {"str", "dict"}
        ELSE FALSE

(* The body of `for line in read_serial(...)` in main of fpv_detector.py.   *)
(* A line json.loads cannot decode and a message process_message gives {}   *)
(* for are skipped.  An exception of the logging branches reaches the       *)
(* `except Exception` around the loop, which ends the loop.                 *)
fpv_detector_main(fix, ok) ==
    /\ fpv_prog = "fpv_detector"
    /\ fpv_pc = "process"
    /\ LET raw_data == json_loads(line)
           processed_msg == process_message(raw_data)
       IN  IF IsRaise(raw_data) \/ processed_msg.items = <<>>
           THEN /\ fpv_pc' = "read"
                /\ UNCHANGED zmq_sent
           ELSE IF LoggingRaises(processed_msg)
           THEN /\ fpv_pc' = "raised"
                /\ UNCHANGED zmq_sent
           ELSE /\ Publish(JDict(WithPosition(processed_msg.items, Position(fix))), ok)
                /\ fpv_pc' = "read"
    /\ UNCHANGED <<programVars, arg, ret, fpv_prog, stationary, gps_socket,
                   static_lat, static_lon, line, fpvSeen>>

NextFpv ==
    \/ \E connected \in BOOLEAN, fix \in GpsFixes : InitGps(connected, fix)
    \/ \E l \in FpvLines : ReadLine(l)
    \/ \E fix \in GpsFixes, ok \in BOOLEAN : process_rx_data(fix, ok)
    \/ \E fix \in GpsFixes, ok \in BOOLEAN : fpv_detector_main(fix, ok)

SpecFpv == InitFpv /\ [][NextFpv]_vars

----------------------------------------------------------------------------
(* Properties *)

\* the step of flush_updates that pops a record and hands it to send_packets_async
Handed == pc = "pop" /\ pc' = "build_pli"

\* the step of send_packets_async that evaluates the GeoChat throttle
ThrottleStep == pc = "throttle" /\ pc' # "throttle"

RegUnique ==
    \A i, j \in 1..Len(latest_updates) :
        latest_updates[i].id = latest_updates[j].id => i = j

\* C1: the registry holds at most one entry per identifier, and the record a
\* pop hands to the sender is the record of the last upsert of that
\* identifier since its previous pop.
C1_LatestWins ==
    /\ []RegUnique
    /\ [][Handed => /\ Head(keys) \in DOMAIN lastUpsert
                    /\ cur' = lastUpsert[Head(keys)].msg]_vars

\* the drone record with alt 55, which replaced the one with alt 50, is handed over
C1_Witness == pc = "build_pli" /\ curOw >= 1 /\ cur.type = "drone" /\ cur.alt = 55

\* C2: a GeoChat throttle check at time now is granted iff
\* now - last_sent[id] >= interval (the first check of an identifier is
\* granted), a grant records now, and a grant is at least interval seconds
\* after the grant before it.
C2_ThrottleGrant ==
    [][ThrottleStep =>
        LET id == shorten_callsign(cur.callsign)
            known == id \in DOMAIN last_geo_chat_sent
            last == IF known THEN last_geo_chat_sent[id] ELSE 0
            granted == pc' = "chat_inflight"
        IN  /\ granted <=> (clock - last >= GEO_CHAT_INTERVAL)
            /\ ~known => granted
            /\ granted => /\ id \in DOMAIN last_geo_chat_sent'
                          /\ last_geo_chat_sent'[id] = clock
            /\ granted /\ known => clock - last_geo_chat_sent[id] >= GEO_CHAT_INTERVAL]_vars

\* a check made exactly GEO_CHAT_INTERVAL seconds after the last grant was granted
C2_Witness ==
    /\ lastCheck # None
    /\ lastCheck.granted
    /\ ~lastCheck.first
    /\ lastCheck.now - lastCheck.last_time = GEO_CHAT_INTERVAL

\* C3: a denied throttle check leaves the last-sent time of every identifier
\* (and the registry and the lock) unchanged.
C3_DeniedNoChange ==
    [][ThrottleStep /\ pc' = "pop" =>
        /\ last_geo_chat_sent' = last_geo_chat_sent
        /\ latest_updates' = latest_updates
        /\ tx_lock' = tx_lock
        /\ inflight' = inflight]_vars

\* a check was denied while two identifiers have a last-sent time
C3_Witness ==
    /\ lastCheck # None
    /\ ~lastCheck.granted
    /\ pc = "pop"
    /\ Cardinality(DOMAIN last_geo_chat_sent) >= 2

\* the position intervals named by the specification: 5 s for drone, 60 s otherwise
PositionInterval(type) == IF type = "drone" THEN 5 ELSE 60

\* C4 as stated: two position packets of the same identifier are never sent
\* less than the position interval of the category apart.
C4_PositionThrottled ==
    lastPli # None /\ lastPli.gap >= 0 => lastPli.gap >= PositionInterval(lastPli.type)

\* the states in which send_packets_async is past the PLI part for cur
PastPli == cur # None /\ pc \in {"pli_inflight", "geochat_filter", "throttle",
                                 "chat_inflight", "pop"}

\* C4 as amended: no throttle stands before the position packet; for every
\* popped record whose type is not unknown exactly one PLI packet is handed
\* to sendData, whatever the time since the last one.
C4_PliEveryPass ==
    PastPli => pliAttempts = (IF cur.type = "unknown" THEN 0 ELSE 1)

\* a PLI packet is being sent less than 60 s after the last one of the same identifier
C4_Witness ==
    /\ pc = "pli_inflight"
    /\ lastPli # None
    /\ lastPli.gap >= 0
    /\ lastPli.gap < PositionInterval(lastPli.type)

\* C5: for a record of type unknown the PLI builder returns None, the
\* GeoChat builder is not called, and nothing is handed to sendData.
C5_UnknownNeverSent ==
    cur # None /\ cur.type = "unknown" =>
        /\ build_atak_pli_packet(cur) = None
        /\ inflight = {}
        /\ pliAttempts = 0
        /\ chatAttempts = 0
        /\ builtChat = 0

\* a record of type unknown went through the registry and send_packets_async
C5_Witness == pc = "pop" /\ cur # None /\ cur.type = "unknown"

\* C6: a packet is in the hands of sendData only while tx_lock is held, and
\* at most one packet is.
C6_MutualExclusion ==
    /\ inflight # {} => tx_lock
    /\ Cardinality(inflight) <= 1

\* a GeoChat packet is in flight under the lock
C6_Witness == pc = "chat_inflight" /\ inflight # {} /\ tx_lock

\* C7: whenever no send is in flight the lock is free, so the next send
\* attempt finds it free.
C7_LockReleased ==
    /\ inflight = {} => ~tx_lock
    /\ pc \in {"build_pli", "throttle"} => ~tx_lock

\* sendData raised for the PLI packet and the lock is free
C7_Witness == raised /\ pc = "geochat_filter" /\ ~tx_lock

\* C8: a sendData call that raises does not end the flusher: the sender goes
\* on with the same record and the same rest of the pass, and no packet is
\* handed to sendData twice for one popped record.
C8_FailureLocal ==
    /\ [](pliAttempts <= 1 /\ chatAttempts <= 1)
    /\ [][pc = "pli_inflight" /\ raised' =>
            /\ running'
            /\ pc' = "geochat_filter"
            /\ keys' = keys
            /\ cur' = cur
            /\ latest_updates' = latest_updates]_vars
    /\ [][pc = "chat_inflight" /\ raised' =>
            /\ running'
            /\ pc' = "pop"
            /\ keys' = Tail(keys)
            /\ latest_updates' = latest_updates]_vars

\* sendData raised for a GeoChat packet and the pass goes on with another identifier
C8_Witness == raised /\ pc = "pop" /\ keys # <<>> /\ chatAttempts = 1

C10_AtomicDrain ==
    /\ (pc = "build_pli" /\ keys = passKeys) => latest_updates = <<>>
    /\ curOw # 2

IsSuffix(q, r) == Len(q) <= Len(r) /\ q = SubSeq(r, Len(r) - Len(q) + 1, Len(r))

\* C10 as amended: the pass fixes the list of identifiers present when it
\* begins and pops them one at a time; a pop removes exactly the entry of
\* that identifier and hands over the record it holds at that moment.
C10_PerKeyDrain ==
    /\ [](IsSuffix(keys, passKeys))
    /\ [][Handed =>
            \E i \in 1..Len(latest_updates) :
                /\ latest_updates[i].id = Head(keys)
                /\ cur' = latest_updates[i].msg
                /\ latest_updates' =
                       [j \in 1..(Len(latest_updates) - 1) |->
                           IF j < i THEN latest_updates[j] ELSE latest_updates[j + 1]]]_vars

\* a record stored during the pass is handed over in that pass, the registry
\* still holding another entry
C10_Witness == pc = "build_pli" /\ curOw = 2 /\ latest_updates # <<>>

----------------------------------------------------------------------------
\* the flusher is working on the record cur
Sending == cur # None /\ pc \in {"build_pli", "pli_inflight", "geochat_filter",
                                  "throttle", "chat_inflight"}

\* C11 (as stated): a record that was stored more than 300 seconds before a pass
\* started is not drained or transmitted by that pass.
C11_StaleNotDrained == Sending => passStart - curSeen <= 300

\* C11 (amended): there is no eviction. A pass starts by listing every
\* identifier of the registry, whatever the age of its record, and removes
\* nothing at that moment; a record leaves the registry only by being handed
\* to the sender.
C11_NoEviction ==
    /\ [][(pc = "sleep" /\ pc' = "pop") =>
            /\ keys' = [i \in 1..Len(latest_updates) |-> latest_updates[i].id]
            /\ latest_updates' = latest_updates]_vars
    /\ [][Len(latest_updates') < Len(latest_updates) => Handed]_vars

\* a record stored more than 300 seconds before the pass started is on the air
C11_Witness == Sending /\ pc = "pli_inflight" /\ passStart - curSeen > 300

----------------------------------------------------------------------------
\* the GeoChat throttle window of id has reopened
WindowOpen(id) == clock - LastGet(last_geo_chat_sent, id) >= GEO_CHAT_INTERVAL

----------------------------------------------------------------------------
\* C13 (as stated): for a drained record of category drone, pilot, home or
\* system the text throttle is evaluated.
C13_DroneEligible ==
    [][(pc = "geochat_filter" /\ cur.type \in {"drone", "pilot", "home", "system"})
          => pc' = "throttle"]_vars

\* C13 (amended): the text throttle is evaluated exactly for the records of
\* category system, pilot or home (never for drone or unknown), whether the
\* PLI packet of the record was sent, failed or was not built; when the
\* throttle allows, one GeoChat packet of the record is built and handed to
\* sendData.
C13_TextEligibility ==
    /\ [][pc = "geochat_filter" =>
            (pc' = "throttle" <=> cur.type \in {"system", "pilot", "home"})]_vars
    /\ [][(pc = "throttle" /\ WindowOpen(shorten_callsign(cur.callsign))) =>
            /\ pc' = "chat_inflight"
            /\ builtChat' = builtChat + 1
            /\ inflight' = {build_atak_geochat_packet(cur)}]_vars
    /\ [](builtChat > 0 => cur.type \in {"system", "pilot", "home"})

\* a drone record went through send_packets_async: its PLI packet was handed
\* to sendData and no GeoChat packet was built
C13_Witness ==
    /\ pc = "pop" /\ cur # None /\ cur.type = "drone"
    /\ pliAttempts = 1 /\ builtChat = 0

----------------------------------------------------------------------------
\* C14 (as stated): a GeoChat send that fails does not start a new throttle
\* window: after it the last-sent time of the identifier is the one the
\* throttle test read.
C14_FailedSendNoWindow ==
    (raised /\ pc = "pop" /\ lastCheck # None /\ lastCheck.granted) =>
        LastGet(last_geo_chat_sent, lastCheck.id) = lastCheck.last_time

\* C14 (amended): the entry of an identifier is created or advanced by the
\* granted throttle test, before the packet is built and handed to sendData,
\* and by nothing else: the outcome of the send does not change it, so a send
\* that fails leaves the new window in place.
C14_RecordedAtGrant ==
    /\ [][(pc = "throttle" /\ pc' = "chat_inflight") =>
            last_geo_chat_sent' =
                MapSet(last_geo_chat_sent, shorten_callsign(cur.callsign), clock)]_vars
    /\ [][last_geo_chat_sent' # last_geo_chat_sent =>
            (pc = "throttle" /\ pc' = "chat_inflight")]_vars
    /\ [][pc = "chat_inflight" => last_geo_chat_sent' = last_geo_chat_sent]_vars

\* the GeoChat send of a granted test failed and the window it started stays
C14_Witness ==
    /\ raised /\ pc = "pop" /\ lastCheck # None /\ lastCheck.granted
    /\ LastGet(last_geo_chat_sent, lastCheck.id) = lastCheck.now
    /\ lastCheck.now # lastCheck.last_time

----------------------------------------------------------------------------
\* the GeoChat packet in flight is not the first one of its identifier
Regranted == pc = "chat_inflight" /\ lastCheck # None /\ ~lastCheck.first

\* C17 (as stated): two GeoChat packets of one pilot or home identifier are
\* never sent less than 30 seconds apart.
C17_LongerForPilotHome ==
    (Regranted /\ cur.type \in {"pilot", "home"}) =>
        lastCheck.now - lastCheck.last_time >= 30

\* C17 (amended): one interval, GEO_CHAT_INTERVAL, is applied to system,
\* pilot and home identifiers alike: the throttle test of a record of any of
\* these categories allows exactly when GEO_CHAT_INTERVAL seconds have passed
\* since the last granted test of its identifier, so two GeoChat packets of
\* one identifier are never sent less than GEO_CHAT_INTERVAL apart.
C17_OneInterval ==
    /\ [][pc = "throttle" =>
            /\ cur.type \in {"system", "pilot", "home"}
            /\ pc' = "chat_inflight" <=>
                  clock - LastGet(last_geo_chat_sent, shorten_callsign(cur.callsign))
                      >= GEO_CHAT_INTERVAL]_vars
    /\ [](Regranted => lastCheck.now - lastCheck.last_time >= GEO_CHAT_INTERVAL)

\* the second GeoChat packet of a pilot or home identifier is in flight
\* GEO_CHAT_INTERVAL seconds after the first
C17_Witness ==
    /\ Regranted /\ cur.type \in {"pilot", "home"}
    /\ lastCheck.now - lastCheck.last_time = GEO_CHAT_INTERVAL

----------------------------------------------------------------------------
\* C15: a datagram that does not decode ends no task: the process is never
\* ended by one, and the event loop keeps running after it.
C15_MalformedNonFatal == exitCause = "malformed" => (running /\ pc # "cancelled")

\* C16: once the interface has been created, the process does not exit
\* without having closed it.
C16_ReleasedOnExit == main = "exited" => interface # "open"

----------------------------------------------------------------------------
\* C18: clamp_int(x, 16) is max(0, min(x, 65535)): it lies in 0..65535, is 0
\* for a negative x, 65535 for an x above 65535 and x otherwise; applying it
\* to its own result changes nothing; the speed and course fields of a PLI
\* packet are such values.
C18_Clamp16 ==
    /\ (arg # None /\ arg.fn = "clamp_int" /\ ret # None) =>
          /\ ret.out \in 0..65535
          /\ arg.val < 0 => ret.out = 0
          /\ arg.val > 65535 => ret.out = 65535
          /\ arg.val \in 0..65535 => ret.out = arg.val
          /\ "again" \in DOMAIN ret => ret.again = ret.out
    /\ (arg # None /\ arg.fn = "build_atak_pli_packet" /\ ret # None) =>
          LET speed == MsgGet(arg.msg, "speed", 0)
              course == MsgGet(arg.msg, "course", 0)
          IN  /\ ret.speed \in 0..65535
              /\ ret.course \in 0..65535
              /\ ret.speed = (IF speed < 0 THEN 0 ELSE IF speed > 65535 THEN 65535 ELSE speed)
              /\ ret.course = (IF course < 0 THEN 0 ELSE IF course > 65535 THEN 65535 ELSE course)

\* an input above the range was clamped, and clamped again
C18_Witness ==
    /\ arg # None /\ arg.fn = "clamp_int" /\ arg.val > 65535
    /\ ret # None /\ "again" \in DOMAIN ret /\ ret.again = 65535

\* n is an integer nearest to deg * 10^7
Nearest(n, deg) ==
    LET m == IF n < 0 THEN -n ELSE n
        r == deg.frac8 % 10
        t == deg.whole * 10000000 + deg.frac8 \div 10
    IN  /\ (n < 0) => deg.neg
        /\ IF r < 5 THEN m = t ELSE IF r > 5 THEN m = t + 1 ELSE m \in {t, t + 1}

\* C19: the latitude_i and longitude_i of a PLI packet are the integers
\* nearest to the scaled degrees.
C19_RoundedFixedPoint ==
    (arg # None /\ arg.fn = "build_atak_pli_packet" /\ ret # None) =>
        /\ Nearest(ret.latitude_i, arg.msg.lat)
        /\ Nearest(ret.longitude_i, arg.msg.lon)

----------------------------------------------------------------------------
\* sub stands somewhere in s
Contains(s, sub) == \E i \in 1..Len(s) : HasAt(s, i, sub)

\* the GeoChat builder was applied to a system message with these remarks
BuiltFrom(remarks) ==
    /\ arg # None /\ arg.fn = "build_atak_geochat_packet" /\ ret # None
    /\ arg.msg.remarks = remarks

T_CPU ==
    <<"C","P","U",":"," ","4","2",".","5","%">>
T_TEMP ==
    <<"T","e","m","p",":"," ","3","8",".","1","°","C">>
T_PLUTO ==
    <<"P","l","u","t","o",":"," ","0",".","7","2","/","1",".","0">>
T_ZYNQ ==
    <<"Z","y","n","q",":"," ","N","/","A">>

\* C20 (as stated): for the remarks "CPU Usage: 42.5% Temp: 38.1°C Pluto:
\* 0.72/1.0 Zynq: N/A" the message contains "CPU: 42.5%", "Temp: 38.1°C",
\* "Pluto: 0.72/1.0" and "Zynq: N/A".
C20_ScenarioContent ==
    BuiltFrom(ShortLabelRemarks) =>
        /\ Contains(ret.message, T_CPU)
        /\ Contains(ret.message, T_TEMP)
        /\ Contains(ret.message, T_PLUTO)
        /\ Contains(ret.message, T_ZYNQ)

ShortLabelMessage ==
    <<"w","a","r","d","r","a","g","o","n","-","1","8","a","3"," ","|"," ",
      "C","P","U",":"," ","4","2",".","5","%"," ","|"," ","T","e","m","p",
      ":"," ","N","/","A","°","C"," ","|"," ","A","D","9","3","6","X",":",
      " ","N","/","A"," ","|"," ","Z","y","n","q",":"," ","N","/","A">>
StatusMessage ==
    <<"w","a","r","d","r","a","g","o","n","-","1","8","a","3"," ","|"," ",
      "C","P","U",":"," ","4","2",".","5","%"," ","|"," ","T","e","m","p",
      ":"," ","3","8",".","1","°","C"," ","|"," ","A","D","9","3","6","X",
      ":"," ","0",".","7","2","/","1",".","0"," ","|"," ","Z","y","n","q",
      ":"," ","N","/","A">>

\* C20 (amended): for those remarks the message is "wardragon-18a3 | CPU:
\* 42.5% | Temp: N/A°C | AD936X: N/A | Zynq: N/A": of the four texts it
\* contains "CPU: 42.5%" and "Zynq: N/A" only.  The values are found when
\* the remarks label them "Temperature:", "Pluto Temp:" and "Zynq Temp:",
\* and the message is then "wardragon-18a3 | CPU: 42.5% | Temp: 38.1°C |
\* AD936X: 0.72/1.0 | Zynq: N/A".
C20_MessageContent ==
    /\ BuiltFrom(ShortLabelRemarks) =>
          /\ ret.message = ShortLabelMessage
          /\ Contains(ret.message, T_CPU)
          /\ Contains(ret.message, T_ZYNQ)
          /\ ~Contains(ret.message, T_TEMP)
          /\ ~Contains(ret.message, T_PLUTO)
    /\ BuiltFrom(StatusRemarks) => ret.message = StatusMessage

\* the builder was applied to the remarks of the scenario and found the CPU
\* value but not the temperature
C20_Witness ==
    /\ BuiltFrom(ShortLabelRemarks)
    /\ Contains(ret.message, T_CPU)
    /\ ~Contains(ret.message, T_TEMP)

----------------------------------------------------------------------------
\* C21: the GeoChat builder never raises, whatever the remarks of the record
\* that reaches it: no run of the program is ended by an exception of the
\* builder.
C21_ExtractionTotal == exitCause # "builder_raised"

----------------------------------------------------------------------------
\* C22: a step that changes the registry without shrinking it (an upsert of
\* the listener) sets the entry of one identifier and leaves every other
\* entry and last_geo_chat_sent as they were; no entry is removed except by
\* the pop of the flusher.
C22_UpsertFrame ==
    /\ [][(latest_updates' # latest_updates /\ Len(latest_updates') >= Len(latest_updates)) =>
            /\ last_geo_chat_sent' = last_geo_chat_sent
            /\ \A i \in 1..Len(latest_updates) :
                  \E j \in 1..Len(latest_updates') :
                      latest_updates'[j].id = latest_updates[i].id
            /\ \E x \in Range(RegIds(latest_updates')) :
                  /\ \A i \in 1..Len(latest_updates) :
                        latest_updates[i].id # x =>
                            \E j \in 1..Len(latest_updates') :
                                latest_updates'[j] = latest_updates[i]
                  /\ \A j \in 1..Len(latest_updates') :
                        latest_updates'[j].id # x =>
                            \E i \in 1..Len(latest_updates) :
                                latest_updates[i] = latest_updates'[j]]_vars
    /\ [][Len(latest_updates') < Len(latest_updates) => pc = "pop"]_vars

\* a record was overwritten while the registry held another identifier and
\* the throttle state held an entry
C22_Witness ==
    /\ running
    /\ Len(latest_updates) = 2
    /\ DOMAIN last_geo_chat_sent # {}
    /\ \E id \in DOMAIN lastUpsert : lastUpsert[id].ow >= 1

----------------------------------------------------------------------------
\* C23: no step deletes an entry of last_geo_chat_sent, and no step lowers
\* the time an entry records.
C23_ThrottleStateGrows ==
    [][\A id \in DOMAIN last_geo_chat_sent :
          /\ id \in DOMAIN last_geo_chat_sent'
          /\ last_geo_chat_sent'[id] >= last_geo_chat_sent[id]]_vars

\* a test denied for an identifier left its entry, recorded after start-up,
\* in place
C23_Witness ==
    /\ lastCheck # None /\ ~lastCheck.granted
    /\ lastCheck.id \in DOMAIN last_geo_chat_sent
    /\ last_geo_chat_sent[lastCheck.id] > StartTime

----------------------------------------------------------------------------
\* C24: in one pass each identifier is popped at most once and gets at most
\* one PLI send attempt and at most one GeoChat send attempt, also when
\* records of it arrive during the pass.
C24_PerPassBound ==
    \A id \in DOMAIN passSent :
        /\ passSent[id].pops <= 1
        /\ passSent[id].pli <= 1
        /\ passSent[id].chat <= 1

\* an identifier got both sends in the running pass, the pass is still at
\* work on a later identifier, and a new record of the first one was stored
\* meanwhile
C24_Witness ==
    /\ Sending
    /\ \E id \in DOMAIN passSent :
          /\ id # shorten_callsign(cur.callsign)
          /\ passSent[id].pops = 1 /\ passSent[id].pli = 1 /\ passSent[id].chat = 1
          /\ RegHas(latest_updates, id)

----------------------------------------------------------------------------
\* C25: the PLI sendData call of a record has returned or raised before the
\* GeoChat throttle of the record is evaluated and its GeoChat packet is
\* handed over, and every sendData call of a record has returned or raised
\* before the next key is popped.
C25_SendOrder ==
    /\ [](pc \in {"geochat_filter", "throttle", "chat_inflight"} =>
             \A p \in inflight : p.kind = "geochat")
    /\ [](pc \in {"sleep", "pop", "build_pli", "geochat_filter", "throttle"} =>
             (inflight = {} /\ ~tx_lock))
    /\ [][(pc = "pli_inflight" /\ pc' # pc /\ running') =>
            (pc' = "geochat_filter" /\ cur' = cur /\ keys' = keys)]_vars
    /\ [][(pc' = "geochat_filter" /\ pc # pc') => pc \in {"build_pli", "pli_inflight"}]_vars
    /\ [][(pc' = "throttle" /\ pc # pc') => pc = "geochat_filter"]_vars
    /\ [][(pc' = "chat_inflight" /\ pc # pc') => pc = "throttle"]_vars
    /\ [][(pc' = "pop" /\ pc # pc') =>
            pc \in {"sleep", "geochat_filter", "throttle", "chat_inflight"}]_vars

\* both sends of a record were attempted and have completed, and the next
\* key has not been popped yet
C25_Witness ==
    /\ pc = "pop" /\ cur # None /\ keys # <<>>
    /\ pliAttempts = 1 /\ chatAttempts = 1 /\ ~raised
    /\ inflight = {} /\ ~tx_lock

\* the i-th line read is handled: a later line was read, or the relay is not
\* working on a line
Handled(i) == i < Len(fpvSeen) \/ fpv_pc # "process"

\* the send_string calls made between the reading of the i-th line and the
\* reading of the next one
AttemptsFor(i) ==
    (IF i < Len(fpvSeen) THEN fpvSeen[i + 1].before ELSE Len(zmq_sent))
        - fpvSeen[i].before

\* C26: FPV relay: a serial line that is not valid JSON is never published
\* and does not stop the relay; each line that is valid JSON leads to exactly
\* one publish attempt, of a message that carries gps_lat and gps_lon; in
\* stationary mode these are the coordinates read once at start-up, the same
\* for every published message.
C26_FpvRelay ==
    /\ \A i \in 1..Len(fpvSeen) :
          Handled(i) => AttemptsFor(i) = (IF fpvSeen[i].valid THEN 1 ELSE 0)
    /\ (fpv_pc = "raised") => fpvSeen[Len(fpvSeen)].valid
    /\ \A j \in 1..Len(zmq_sent) :
          /\ DictHas(zmq_sent[j].msg.items, K_GPS_LAT)
          /\ DictHas(zmq_sent[j].msg.items, K_GPS_LON)
          /\ stationary =>
                /\ DictGet(zmq_sent[j].msg.items, K_GPS_LAT, JNone) = JFloat(static_lat)
                /\ DictGet(zmq_sent[j].msg.items, K_GPS_LON, JNone) = JFloat(static_lon)

====
